---- MODULE Spec2Model ----
(***************************************************************************)
(* Model of alphastarmini/core/rl/rl_algo.py: the discounted-sum scan, the *)
(* lambda-return, UPGO and V-trace target calculators.                     *)
(*                                                                         *)
(* The functions are pure.  A tensor of shape [T, B] is a sequence of T    *)
(* rows, each a sequence of B integers; a tensor of shape [B] is one row.  *)
(* Elementwise operators follow torch's broadcasting rule (a dimension of  *)
(* size 1 is stretched, any other size mismatch raises RuntimeError).      *)
(* A Python scalar is the [1, 1] tensor holding it, which broadcasts the   *)
(* same way.  All inputs are small integers, on which float32 arithmetic   *)
(* is exact.                                                               *)
(***************************************************************************)
EXTENDS Integers, Sequences, FiniteSets, TLC

VARIABLES pc, chunk, fn, opts, ret

vars == <<pc, chunk, fn, opts, ret>>

(***************************************************************************)
(* Bounds of the model.                                                    *)
(***************************************************************************)
MaxT == 3
MaxB == 2

(***************************************************************************)
(* Python values.                                                          *)
(***************************************************************************)
None == <<>>

Some(x) == <<x>>

Ret(v) == [raised |-> "none", value |-> v]

Raise(e) == [raised |-> e, value |-> <<>>]

Returned(r) == r.raised = "none"

NoCall == [raised |-> "pending", value |-> <<>>]

(***************************************************************************)
(* torch tensors.                                                          *)
(***************************************************************************)
Min(a, b) == IF a <= b THEN a ELSE b

Max(a, b) == IF a >= b THEN a ELSE b

Scalar(c) == <<<<c>>>>

Dim0(x) == Len(x)

Dim1(x) == Len(x[1])

Shape(x) == <<Dim0(x), Dim1(x)>>

BroadcastableDim(m, n) == m = n \/ m = 1 \/ n = 1

Broadcastable(x, y) ==
    /\ BroadcastableDim(Dim0(x), Dim0(y))
    /\ BroadcastableDim(Dim1(x), Dim1(y))

Pick(x, i) == x[IF Len(x) = 1 THEN 1 ELSE i]

\* A tensor is held as an explicit tuple (not as an unevaluated function).
Stored(f) == f \o <<>>

RowAdd(a, b) == 
    Stored([i \in 1..Max(Len(a), Len(b)) |-> Pick(a, i) + Pick(b, i)])

RowSub(a, b) == 
    Stored([i \in 1..Max(Len(a), Len(b)) |-> Pick(a, i) - Pick(b, i)])

RowMul(a, b) == 
    Stored([i \in 1..Max(Len(a), Len(b)) |-> Pick(a, i) * Pick(b, i)])

TAdd(x, y) == 
    Stored([t \in 1..Max(Len(x), Len(y)) |-> RowAdd(Pick(x, t), Pick(y, t))])

TSub(x, y) == 
    Stored([t \in 1..Max(Len(x), Len(y)) |-> RowSub(Pick(x, t), Pick(y, t))])

TMul(x, y) == 
    Stored([t \in 1..Max(Len(x), Len(y)) |-> RowMul(Pick(x, t), Pick(y, t))])

flip(x) == Stored([t \in 1..Len(x) |-> x[Len(x) + 1 - t]])

(***************************************************************************)
(* reverse_seq                                                             *)
(***************************************************************************)
reverse_seq_ignores_lengths(sequence, sequence_lengths) == Ret(flip(sequence))

reverse_seq(sequence, sequence_lengths) ==
    IF sequence_lengths = None
    THEN Ret(flip(sequence))
    ELSE Raise("NotImplementedError")

(***************************************************************************)
(* scan_discounted_sum and its inner scan.  The loop emits foo(a_, x[i])   *)
(* and then sets a_ to the same value; the item x[0] is emitted before the *)
(* loop and does not update a_.                                            *)
(***************************************************************************)
sds_foo_nodecay(a, x) == RowAdd(x[1], a)

sds_foo(a, x) == RowAdd(x[1], RowMul(x[2], a))

RECURSIVE sds_scan_loop(_, _, _, _)
sds_scan_loop(x, a_, i, res) ==
    IF i > Len(x)
    THEN res
    ELSE sds_scan_loop(x, sds_foo(a_, x[i]), i + 1,
                       Append(res, sds_foo(a_, x[i])))

sds_scan(x, initial_value) ==
    sds_scan_loop(x, initial_value, 2, <<sds_foo(initial_value, x[1])>>)

scan_discounted_sum(sequence, decay, initial_value, reverse, sequence_lengths) ==
    IF sequence_lengths # None
    THEN Raise("NotImplementedError")
    ELSE IF reverse /\ ~Returned(reverse_seq(sequence, sequence_lengths))
    THEN reverse_seq(sequence, sequence_lengths)
    ELSE IF Shape(sequence) # Shape(decay)
    THEN Raise("RuntimeError")
    ELSE IF ~BroadcastableDim(Dim1(sequence), Len(initial_value))
    THEN Raise("RuntimeError")
    ELSE LET s == IF reverse
                  THEN reverse_seq(sequence, sequence_lengths).value
                  ELSE sequence
             d == IF reverse
                  THEN reverse_seq(decay, sequence_lengths).value
                  ELSE decay
             elems == Stored([t \in 1..Len(s) |-> <<s[t], d[t]>>])
             summed == sds_scan(elems, initial_value)
         IN  IF reverse
             THEN reverse_seq(summed, sequence_lengths)
             ELSE Ret(summed)

(***************************************************************************)
(* multistep_forward_view and lambda_returns                               *)
(***************************************************************************)
multistep_forward_view_fulldecay(rewards, pcontinues, state_values, lambda_, sequence_lengths) ==
    IF \/ ~Broadcastable(pcontinues, state_values)
       \/ ~Broadcastable(TMul(pcontinues, state_values), lambda_)
       \/ ~Broadcastable(rewards,
                         TMul(TMul(pcontinues, state_values), lambda_))
    THEN Raise("RuntimeError")
    ELSE LET sequence == TAdd(rewards,
                              TMul(TMul(pcontinues, state_values),
                                   TSub(Scalar(1), lambda_)))
         IN  scan_discounted_sum(sequence, pcontinues,
                                 state_values[Len(state_values)],
                                 TRUE, sequence_lengths)

multistep_forward_view(rewards, pcontinues, state_values, lambda_, sequence_lengths) ==
    IF \/ ~Broadcastable(pcontinues, state_values)
       \/ ~Broadcastable(TMul(pcontinues, state_values), lambda_)
       \/ ~Broadcastable(rewards,
                         TMul(TMul(pcontinues, state_values), lambda_))
       \/ ~Broadcastable(pcontinues, lambda_)
    THEN Raise("RuntimeError")
    ELSE LET sequence == TAdd(rewards,
                              TMul(TMul(pcontinues, state_values),
                                   TSub(Scalar(1), lambda_)))
             discount == TMul(pcontinues, lambda_)
         IN  scan_discounted_sum(sequence, discount,
                                 state_values[Len(state_values)],
                                 TRUE, sequence_lengths)

lambda_returns(values_tp1, rewards, discounts, lambdas) ==
    multistep_forward_view(rewards, discounts, values_tp1, lambdas, None)

(***************************************************************************)
(* upgo_returns                                                            *)
(***************************************************************************)
TGe(x, y) ==
    Stored([t \in 1..Max(Len(x), Len(y)) |->
        Stored([b \in 1..Max(Len(Pick(x, t)), Len(Pick(y, t))) |->
            IF Pick(Pick(x, t), b) >= Pick(Pick(y, t), b) THEN 1 ELSE 0])])

shift_in(x, last) == Tail(x) \o <<last>>

ones_like(row) == Stored([b \in 1..Len(row) |-> 1])

upgo_returns(values, rewards, discounts, bootstrap) ==
    IF Dim1(values) # Len(bootstrap)
    THEN Raise("RuntimeError")
    ELSE LET next_values == shift_in(values, bootstrap)
         IN  IF \/ ~Broadcastable(discounts, next_values)
                \/ ~Broadcastable(rewards, TMul(discounts, next_values))
                \/ ~Broadcastable(TAdd(rewards, TMul(discounts, next_values)),
                                  values)
             THEN Raise("RuntimeError")
             ELSE LET trace == TGe(TAdd(rewards, TMul(discounts, next_values)),
                                   values)
                      lambdas == shift_in(trace, ones_like(trace[Len(trace)]))
                  IN  lambda_returns(next_values, rewards, discounts, lambdas)

(***************************************************************************)
(* generalized_lambda_returns.  lambda_ is a tensor, a Python scalar being *)
(* the [1, 1] tensor holding it; the truth value of lambda_ == 1 is        *)
(* defined for a tensor of one element only.                               *)
(***************************************************************************)
generalized_lambda_returns_last_value(rewards, pcontinues, values, bootstrap_value, lambda_) ==
    IF Dim0(lambda_) * Dim1(lambda_) # 1
    THEN Raise("RuntimeError")
    ELSE IF lambda_[1][1] = 1
    THEN scan_discounted_sum(rewards, pcontinues, values[Len(values)],
                             TRUE, None)
    ELSE IF Dim1(values) # Len(bootstrap_value)
    THEN Raise("RuntimeError")
    ELSE LET v_tp1 == shift_in(values, bootstrap_value)
         IN  multistep_forward_view(rewards, pcontinues, v_tp1, lambda_, None)

generalized_lambda_returns(rewards, pcontinues, values, bootstrap_value, lambda_) ==
    IF Dim0(lambda_) * Dim1(lambda_) # 1
    THEN Raise("RuntimeError")
    ELSE IF lambda_[1][1] = 1
    THEN scan_discounted_sum(rewards, pcontinues, bootstrap_value, TRUE, None)
    ELSE IF Dim1(values) # Len(bootstrap_value)
    THEN Raise("RuntimeError")
    ELSE LET v_tp1 == shift_in(values, bootstrap_value)
         IN  multistep_forward_view(rewards, pcontinues, v_tp1, lambda_, None)

(***************************************************************************)
(* vtrace_from_importance_weights.  A clip threshold is None or Some(c).   *)
(* zip() stops at the shortest of its arguments.                           *)
(***************************************************************************)
clamp_max(x, m) ==
    Stored([t \in 1..Len(x) |->
        Stored([b \in 1..Len(x[t]) |-> Min(x[t][b], m)])])

clipped_rhos_always_one(rhos, clip_rho_threshold) ==
    IF clip_rho_threshold # None
    THEN clamp_max(rhos, 1)
    ELSE rhos

clipped_rhos(rhos, clip_rho_threshold) ==
    IF clip_rho_threshold # None
    THEN clamp_max(rhos, clip_rho_threshold[1])
    ELSE rhos

cs(rhos) == clamp_max(rhos, 1)

zip3(x, y, z) ==
    Stored([t \in 1..Min(Len(x), Min(Len(y), Len(z))) |->
        <<x[t], y[t], z[t]>>])

scanfunc_drops_c(acc, sequence_item) ==
    RowAdd(sequence_item[3], RowMul(sequence_item[1], acc))

scanfunc(acc, sequence_item) ==
    RowAdd(sequence_item[3],
           RowMul(RowMul(sequence_item[1], sequence_item[2]), acc))

scanfunc_raises(acc, sequence_item) ==
    LET nd == Len(sequence_item[1])
        nc == Len(sequence_item[2])
        ndelta == Len(sequence_item[3])
    IN  \/ ~BroadcastableDim(nd, nc)
        \/ ~BroadcastableDim(Max(nd, nc), Len(acc))
        \/ ~BroadcastableDim(ndelta, Max(Max(nd, nc), Len(acc)))

RECURSIVE vtrace_scan_loop(_, _, _, _)
vtrace_scan_loop(x, a_, i, res) ==
    IF i > Len(x)
    THEN res
    ELSE vtrace_scan_loop(x, scanfunc(a_, x[i]), i + 1,
                          Append(res, scanfunc(a_, x[i])))

vtrace_scan(x, initial_value) ==
    vtrace_scan_loop(x, initial_value, 2, <<scanfunc(initial_value, x[1])>>)

zeros_like(row) == Stored([b \in 1..Len(row) |-> 0])

pg_advantages_nodiscount(clipped_pg_rhos, rewards, discounts, vs_t_plus_1, values) ==
    TMul(clipped_pg_rhos, TSub(TAdd(rewards, vs_t_plus_1), values))

pg_advantages(clipped_pg_rhos, rewards, discounts, vs_t_plus_1, values) ==
    TMul(clipped_pg_rhos,
         TSub(TAdd(rewards, TMul(discounts, vs_t_plus_1)), values))

vtrace_from_importance_weights(rhos, discounts, rewards, values, bootstrap_value, clip_rho_threshold, clip_pg_rho_threshold) ==
    IF Dim1(values) # Len(bootstrap_value)
    THEN Raise("RuntimeError")
    ELSE
    LET clipped == clipped_rhos(rhos, clip_rho_threshold)
        values_t_plus_1 == shift_in(values, bootstrap_value)
        dv == TMul(discounts, values_t_plus_1)
        rdv == TAdd(rewards, dv)
        td == TSub(rdv, values)
    IN
    IF \/ ~Broadcastable(discounts, values_t_plus_1)
       \/ ~Broadcastable(rewards, dv)
       \/ ~Broadcastable(rdv, values)
       \/ ~Broadcastable(clipped, td)
    THEN Raise("RuntimeError")
    ELSE
    LET deltas == TMul(clipped, td)
        sequences == zip3(flip(discounts), flip(cs(rhos)), flip(deltas))
        initial_values == zeros_like(bootstrap_value)
    IN
    IF \E i \in 1..Len(sequences) :
           scanfunc_raises(initial_values, sequences[i])
    THEN Raise("RuntimeError")
    ELSE
    LET vs_minus_v_xs == flip(vtrace_scan(sequences, initial_values))
    IN
    IF ~Broadcastable(vs_minus_v_xs, values)
    THEN Raise("RuntimeError")
    ELSE
    LET vs == TAdd(vs_minus_v_xs, values)
    IN
    IF Dim1(vs) # Len(bootstrap_value)
    THEN Raise("RuntimeError")
    ELSE
    LET vs_t_plus_1 == shift_in(vs, bootstrap_value)
        clipped_pg_rhos == IF clip_pg_rho_threshold # None
                           THEN clamp_max(rhos, clip_pg_rho_threshold[1])
                           ELSE rhos
        dvs == TMul(discounts, vs_t_plus_1)
        rdvs == TAdd(rewards, dvs)
    IN
    IF \/ ~Broadcastable(discounts, vs_t_plus_1)
       \/ ~Broadcastable(rewards, dvs)
       \/ ~Broadcastable(rdvs, values)
       \/ ~Broadcastable(clipped_pg_rhos, TSub(rdvs, values))
    THEN Raise("RuntimeError")
    ELSE Ret([vs |-> vs,
              pg_advantages |-> pg_advantages(clipped_pg_rhos, rewards,
                                              discounts, vs_t_plus_1, values)])

(***************************************************************************)
(* Inputs: a batch of B trajectories of T steps is built from one time     *)
(* profile; trajectory b is the profile shifted cyclically by b-1 steps.   *)
(***************************************************************************)
Batch(col, B) ==
    Stored([t \in 1..Len(col) |->
        Stored([b \in 1..B |-> col[((t + b - 2) % Len(col)) + 1]])])

Full(T, B, c) == Stored([t \in 1..T |-> Stored([b \in 1..B |-> c])])

SeqVals == {0, 1, 2}

DecayVals == {0, 1}

InitVals == {0, 1, 2}

LambdaVals == {0, 1}

ScanChunks ==
    { [sequence |-> Batch(s, B), decay |-> Batch(d, B),
       initial_value |->
           Stored([b \in 1..B |-> (i + b - 1) % Cardinality(InitVals)])] :
        <<s, d, B, i>> \in
            UNION { ([1..T -> SeqVals] \X [1..T -> DecayVals] \X (1..MaxB)
                     \X InitVals) : T \in 1..MaxT } }

RewardVals == {0, 1}

FinalRewardVals == {0, 1, 2}

DiscountVals == {0, 1}

ValueVals == {0, 1}

Alternating(base, B) ==
    Stored([b \in 1..B |-> (base + b - 1) % Cardinality(ValueVals)])

\* Reward profiles: the last reward of a chunk ranges over FinalRewardVals.
RewardProfiles(T) ==
    { [t \in 1..T |-> IF t = T THEN f ELSE r[t]] :
        <<r, f>> \in [1..T -> RewardVals] \X FinalRewardVals }

ReturnChunks ==
    { [rewards |-> Batch(r, B), discounts |-> Batch(d, B),
       values |-> Batch(v, B), bootstrap_value |-> Alternating(bv, B)] :
        <<r, d, v, B, bv>> \in
            UNION { (RewardProfiles(T) \X [1..T -> DiscountVals]
                     \X [1..T -> ValueVals] \X (1..MaxB) \X ValueVals) :
                    T \in 1..MaxT } }

RhoVals == {0, 1, 2}

Infinity == (CHOOSE m \in RhoVals : \A r \in RhoVals : r <= m) + 1

ClipRhoThresholds == {None, Some(1), Some(Infinity)}

ClipPgRhoThresholds == {None, Some(1)}

\* V-trace chunks: MaxB trajectories, every profile of rhos, discounts and
\* values; rewards are 1 at every step and bootstrap_value alternates 1, 0.
VtraceChunks ==
    { [rhos |-> Batch(rho, MaxB), rewards |-> Full(Len(rho), MaxB, 1),
       discounts |-> Batch(d, MaxB), values |-> Batch(v, MaxB),
       bootstrap_value |-> Alternating(1, MaxB)] :
        <<rho, d, v>> \in
            UNION { ([1..T -> RhoVals] \X [1..T -> DiscountVals]
                     \X [1..T -> ValueVals]) : T \in 1..MaxT } }

SequenceLengths(x) == {None, Stored([b \in 1..Dim1(x) |-> Dim0(x)])}

(***************************************************************************)
(* Specification of the scan engine: one call per behaviour.               *)
(***************************************************************************)
Init ==
    /\ pc = "ready"
    /\ chunk \in ScanChunks
    /\ fn = "none"
    /\ opts = <<>>
    /\ ret = NoCall

Call_scan_discounted_sum ==
    /\ pc = "ready"
    /\ \E reverse \in BOOLEAN, sl \in SequenceLengths(chunk.sequence) :
        /\ fn' = "scan_discounted_sum"
        /\ opts' = [reverse |-> reverse, sequence_lengths |-> sl]
        /\ ret' = scan_discounted_sum(chunk.sequence, chunk.decay,
                                      chunk.initial_value, reverse, sl)
    /\ pc' = "done"
    /\ UNCHANGED chunk

Call_reverse_seq ==
    /\ pc = "ready"
    /\ \E sl \in SequenceLengths(chunk.sequence) :
        /\ fn' = "reverse_seq"
        /\ opts' = [sequence_lengths |-> sl]
        /\ ret' = reverse_seq(chunk.sequence, sl)
    /\ pc' = "done"
    /\ UNCHANGED chunk

Next ==
    \/ Call_scan_discounted_sum
    \/ Call_reverse_seq

Spec == Init /\ [][Next]_vars

(***************************************************************************)
(* Claims about the scan engine, checked under Spec.                       *)
(***************************************************************************)
ScanReturned(reverse) ==
    /\ pc = "done"
    /\ fn = "scan_discounted_sum"
    /\ opts.reverse = reverse
    /\ opts.sequence_lengths = None

AllZero(x) == \A t \in 1..Dim0(x) : \A b \in 1..Dim1(x) : x[t][b] = 0

\* C1: a reverse scan returns result[T] = sequence[T] + decay[T]*initial_value
\* and result[k] = sequence[k] + decay[k]*result[k+1] for every k < T.
C1_ReverseRecurrence ==
    ScanReturned(TRUE) =>
        /\ Returned(ret)
        /\ LET T == Dim0(chunk.sequence)
               result == ret.value
           IN  /\ result[T] = RowAdd(chunk.sequence[T],
                                     RowMul(chunk.decay[T], chunk.initial_value))
               /\ \A k \in 1..(T - 1) :
                     result[k] = RowAdd(chunk.sequence[k],
                                        RowMul(chunk.decay[k], result[k + 1]))

\* C6: with decay identically 0 the scan returns sequence unchanged, in both
\* directions, whatever initial_value is.
C6_ZeroDecayIsIdentity ==
    \A reverse \in BOOLEAN :
        (ScanReturned(reverse) /\ AllZero(chunk.decay)) =>
            (Returned(ret) /\ ret.value = chunk.sequence)

C6_Witness ==
    /\ ScanReturned(TRUE)
    /\ AllZero(chunk.decay)
    /\ Dim0(chunk.sequence) >= 3
    /\ Dim1(chunk.sequence) >= 2
    /\ \A b \in 1..Len(chunk.initial_value) : chunk.initial_value[b] # 0
    /\ ~AllZero(chunk.sequence)
    /\ ret.value = chunk.sequence

(***************************************************************************)
(* Specification of the return calculators: a trajectory chunk is handed   *)
(* to lambda_returns (with next_values built by the caller from values and *)
(* bootstrap_value) or to upgo_returns.                                    *)
(***************************************************************************)
InitReturns ==
    /\ pc = "ready"
    /\ chunk \in ReturnChunks
    /\ fn = "none"
    /\ opts = <<>>
    /\ ret = NoCall

Call_lambda_returns ==
    /\ pc = "ready"
    /\ \E l \in LambdaVals :
        LET values_tp1 == shift_in(chunk.values, chunk.bootstrap_value)
        IN  /\ fn' = "lambda_returns"
            /\ opts' = [values_tp1 |-> values_tp1, lambdas |-> l]
            /\ ret' = lambda_returns(values_tp1, chunk.rewards,
                                     chunk.discounts, Scalar(l))
    /\ pc' = "done"
    /\ UNCHANGED chunk

Call_upgo_returns ==
    /\ pc = "ready"
    /\ fn' = "upgo_returns"
    /\ opts' = <<>>
    /\ ret' = upgo_returns(chunk.values, chunk.rewards, chunk.discounts,
                           chunk.bootstrap_value)
    /\ pc' = "done"
    /\ UNCHANGED chunk

\* lambda_ is the scalar 0 or 1, or a [T, B] tensor of ones.
Call_generalized_lambda_returns ==
    /\ pc = "ready"
    /\ \E lambda_ \in {Scalar(0), Scalar(1),
                       Full(Dim0(chunk.rewards), Dim1(chunk.rewards), 1)} :
        /\ fn' = "generalized_lambda_returns"
        /\ opts' = [lambda_ |-> lambda_]
        /\ ret' = generalized_lambda_returns(chunk.rewards, chunk.discounts,
                                             chunk.values,
                                             chunk.bootstrap_value, lambda_)
    /\ pc' = "done"
    /\ UNCHANGED chunk

NextReturns ==
    \/ Call_lambda_returns
    \/ Call_upgo_returns
    \/ Call_generalized_lambda_returns

SpecReturns == InitReturns /\ [][NextReturns]_vars

(***************************************************************************)
(* Claims about the return calculators, checked under SpecReturns.         *)
(***************************************************************************)
LambdaReturned(l) ==
    /\ pc = "done"
    /\ fn = "lambda_returns"
    /\ opts.lambdas = l

SameShape(x, y) ==
    /\ Dim0(x) = Dim0(y)
    /\ \A t \in 1..Dim0(x) : Len(x[t]) = Len(y[t])

\* C3: lambda_returns with lambdas = 1 is the plain reverse discounted sum
\* G[T] = rewards[T] + discounts[T]*next_values[T],
\* G[t] = rewards[t] + discounts[t]*G[t+1].
C3_LambdaOneIsDiscountedSum ==
    LambdaReturned(1) =>
        /\ Returned(ret)
        /\ SameShape(ret.value, chunk.rewards)
        /\ LET T == Dim0(chunk.rewards)
               G == ret.value
           IN  \A b \in 1..Dim1(chunk.rewards) :
                 /\ G[T][b] = chunk.rewards[T][b]
                      + chunk.discounts[T][b] * opts.values_tp1[T][b]
                 /\ \A t \in 1..(T - 1) :
                       G[t][b] = chunk.rewards[t][b]
                                 + chunk.discounts[t][b] * G[t + 1][b]

\* C4: upgo_returns is the lambda-return recurrence with the shifted trace
\* coefficient l'[t] = 1 at t = T and otherwise 1 iff
\* rewards[t+1] + discounts[t+1]*next_values[t+1] >= values[t+1].
C4_UpgoRecurrence ==
    (pc = "done" /\ fn = "upgo_returns") =>
        /\ Returned(ret)
        /\ SameShape(ret.value, chunk.rewards)
        /\ LET T == Dim0(chunk.rewards)
               G == ret.value
               nv == [t \in 1..T |->
                        IF t = T THEN chunk.bootstrap_value
                                 ELSE chunk.values[t + 1]]
           IN  \A b \in 1..Dim1(chunk.rewards) :
                 /\ G[T][b] = chunk.rewards[T][b]
                      + chunk.discounts[T][b] * chunk.bootstrap_value[b]
                 /\ \A t \in 1..(T - 1) :
                       LET l == IF chunk.rewards[t + 1][b]
                                   + chunk.discounts[t + 1][b] * nv[t + 1][b]
                                   >= chunk.values[t + 1][b]
                                THEN 1 ELSE 0
                       IN  G[t][b] = chunk.rewards[t][b]
                             + chunk.discounts[t][b]
                               * (l * G[t + 1][b] + (1 - l) * nv[t][b])

\* C5: lambda_returns with lambdas = 0 is the one-step TD target
\* rewards[t] + discounts[t]*next_values[t] at every t.
C5_LambdaZeroIsTDTarget ==
    LambdaReturned(0) =>
        /\ Returned(ret)
        /\ SameShape(ret.value, chunk.rewards)
        /\ \A t \in 1..Dim0(chunk.rewards) :
             \A b \in 1..Dim1(chunk.rewards) :
               ret.value[t][b] = chunk.rewards[t][b]
                   + chunk.discounts[t][b] * opts.values_tp1[t][b]

C5_Witness ==
    /\ LambdaReturned(0)
    /\ Returned(ret)
    /\ Dim0(chunk.rewards) >= 3
    /\ Dim1(chunk.rewards) >= 2
    /\ \A t \in 1..Dim0(chunk.rewards) :
         /\ chunk.discounts[t][1] = 1
         /\ opts.values_tp1[t][1] = 1
         /\ ret.value[t][1] = chunk.rewards[t][1] + 1

FastPathReturned ==
    /\ pc = "done"
    /\ fn = "generalized_lambda_returns"
    /\ opts.lambda_ = Scalar(1)

\* C13: the lambda_ = 1 fast path of generalized_lambda_returns returns the
\* same tensor as the general branch, multistep_forward_view on v_tp1 =
\* values[1:] followed by bootstrap_value, evaluated at lambda_ = 1.
C13_FastPathIsGeneralBranch ==
    FastPathReturned =>
        /\ Returned(ret)
        /\ SameShape(ret.value, chunk.rewards)
        /\ ret = multistep_forward_view(
                     chunk.rewards, chunk.discounts,
                     shift_in(chunk.values, chunk.bootstrap_value),
                     Scalar(1), None)

C13_Witness ==
    /\ FastPathReturned
    /\ Returned(ret)
    /\ Dim0(chunk.rewards) >= 3
    /\ Dim1(chunk.rewards) >= 2
    /\ \A t \in 1..Dim0(chunk.rewards) :
         /\ chunk.discounts[t][1] = 1
         /\ chunk.values[t][1] = 1
    /\ chunk.bootstrap_value = <<0, 1>>
    /\ chunk.rewards[Dim0(chunk.rewards)] = <<2, 1>>
    /\ ret.value[Dim0(chunk.rewards)] = <<2, 2>>

(***************************************************************************)
(* Specification of the V-trace corrector.                                 *)
(***************************************************************************)
InitVtrace ==
    /\ pc = "ready"
    /\ chunk \in VtraceChunks
    /\ fn = "none"
    /\ opts = <<>>
    /\ ret = NoCall

Call_vtrace_from_importance_weights ==
    /\ pc = "ready"
    /\ \E crt \in ClipRhoThresholds, cpt \in ClipPgRhoThresholds :
        /\ fn' = "vtrace_from_importance_weights"
        /\ opts' = [clip_rho_threshold |-> crt, clip_pg_rho_threshold |-> cpt]
        /\ ret' = vtrace_from_importance_weights(
                      chunk.rhos, chunk.discounts, chunk.rewards, chunk.values,
                      chunk.bootstrap_value, crt, cpt)
    /\ pc' = "done"
    /\ UNCHANGED chunk

NextVtrace == Call_vtrace_from_importance_weights

SpecVtrace == InitVtrace /\ [][NextVtrace]_vars

(***************************************************************************)
(* Claims about the V-trace corrector, checked under SpecVtrace.           *)
(***************************************************************************)
VtraceReturned ==
    /\ pc = "done"
    /\ fn = "vtrace_from_importance_weights"
    /\ Returned(ret)

Clip(x, threshold) == IF threshold = None THEN x ELSE Min(x, threshold[1])

\* The temporal difference of step t, trajectory b, weighted by w.
Delta(w, t, b) ==
    w * (chunk.rewards[t][b]
         + chunk.discounts[t][b]
           * (IF t = Dim0(chunk.values) THEN chunk.bootstrap_value[b]
                                        ELSE chunk.values[t + 1][b])
         - chunk.values[t][b])

\* C2: vs satisfies the V-trace recurrence
\* vs[T] - values[T] = deltas[T] and, for t < T,
\* vs[t] - values[t] = deltas[t] + discounts[t]*cs[t]*(vs[t+1] - values[t+1]).
C2_VtraceRecurrence ==
    (pc = "done" /\ fn = "vtrace_from_importance_weights") =>
        /\ Returned(ret)
        /\ SameShape(ret.value.vs, chunk.values)
        /\ LET T == Dim0(chunk.values)
               vs == ret.value.vs
           IN  \A b \in 1..Dim1(chunk.values) :
                 \A t \in 1..T :
                   vs[t][b] - chunk.values[t][b] =
                     Delta(Clip(chunk.rhos[t][b], opts.clip_rho_threshold), t, b)
                     + (IF t = T THEN 0
                        ELSE chunk.discounts[t][b] * Min(chunk.rhos[t][b], 1)
                             * (vs[t + 1][b] - chunk.values[t + 1][b]))

AtLeastOneOrNone(threshold) == threshold = None \/ threshold[1] >= 1

OnPolicy ==
    /\ \A t \in 1..Dim0(chunk.rhos) :
         \A b \in 1..Dim1(chunk.rhos) : chunk.rhos[t][b] = 1
    /\ AtLeastOneOrNone(opts.clip_rho_threshold)
    /\ AtLeastOneOrNone(opts.clip_pg_rho_threshold)

VsNext(t, b) ==
    IF t = Dim0(chunk.values) THEN chunk.bootstrap_value[b]
                              ELSE ret.value.vs[t + 1][b]

\* C7: with rhos identically 1 and both thresholds >= 1 or None,
\* pg_advantages[t] = rewards[t] + discounts[t]*vs_next[t] - values[t].
C7_OnPolicyAdvantage ==
    (pc = "done" /\ fn = "vtrace_from_importance_weights" /\ OnPolicy) =>
        /\ Returned(ret)
        /\ SameShape(ret.value.pg_advantages, chunk.values)
        /\ \A t \in 1..Dim0(chunk.values) :
             \A b \in 1..Dim1(chunk.values) :
               ret.value.pg_advantages[t][b] =
                   chunk.rewards[t][b]
                   + chunk.discounts[t][b] * VsNext(t, b)
                   - chunk.values[t][b]

C7_Witness ==
    /\ VtraceReturned
    /\ OnPolicy
    /\ Dim0(chunk.values) >= 3
    /\ chunk.discounts[1][1] = 0
    /\ chunk.discounts[2][1] = 1
    /\ VsNext(1, 1) > 0
    /\ VsNext(2, 1) > 1
    /\ ret.value.pg_advantages[2][1] =
           chunk.rewards[2][1] + VsNext(2, 1) - chunk.values[2][1]

\* C8: clip_rho_threshold = None and a clip_rho_threshold above every rho
\* give the same (vs, pg_advantages); the trace coefficient stays
\* min(rhos, 1) (observed on the steps t <= T-2, whose vs depends on it).
C8_NoneIsInfiniteThreshold ==
    (pc = "done" /\ fn = "vtrace_from_importance_weights"
     /\ opts.clip_rho_threshold \in {None, Some(Infinity)}) =>
        /\ Returned(ret)
        /\ ret = vtrace_from_importance_weights(
                     chunk.rhos, chunk.discounts, chunk.rewards, chunk.values,
                     chunk.bootstrap_value,
                     IF opts.clip_rho_threshold = None THEN Some(Infinity)
                                                       ELSE None,
                     opts.clip_pg_rho_threshold)
        /\ \A b \in 1..Dim1(chunk.values) :
             \A t \in 1..(Dim0(chunk.values) - 2) :
               ret.value.vs[t][b] - chunk.values[t][b] =
                   Delta(chunk.rhos[t][b], t, b)
                   + chunk.discounts[t][b] * Min(chunk.rhos[t][b], 1)
                     * (ret.value.vs[t + 1][b] - chunk.values[t + 1][b])

C8_Witness ==
    /\ VtraceReturned
    /\ opts.clip_rho_threshold = Some(Infinity)
    /\ Dim0(chunk.values) >= 3
    /\ chunk.rhos[1][1] = 2
    /\ chunk.discounts[1][1] = 1
    /\ Delta(1, 1, 1) > 0
    /\ ret.value.vs[2][1] - chunk.values[2][1] > 0
    /\ ret.value.vs[1][1] - chunk.values[1][1] =
           Delta(2, 1, 1) + ret.value.vs[2][1] - chunk.values[2][1]

(***************************************************************************)
(* Specification of the V-trace value targets: vs does not depend on       *)
(* clip_pg_rho_threshold, which keeps its default 1.0.                     *)
(***************************************************************************)
InitVtraceScan ==
    /\ pc = "ready"
    /\ chunk \in VtraceChunks
    /\ fn = "none"
    /\ opts = <<>>
    /\ ret = NoCall

Targets_vtrace_from_importance_weights ==
    /\ pc = "ready"
    /\ \E crt \in ClipRhoThresholds :
        /\ fn' = "vtrace_from_importance_weights"
        /\ opts' = [clip_rho_threshold |-> crt,
                    clip_pg_rho_threshold |-> Some(1)]
        /\ ret' = vtrace_from_importance_weights(
                      chunk.rhos, chunk.discounts, chunk.rewards, chunk.values,
                      chunk.bootstrap_value, crt, Some(1))
    /\ pc' = "done"
    /\ UNCHANGED chunk

NextVtraceScan == Targets_vtrace_from_importance_weights

SpecVtraceScan == InitVtraceScan /\ [][NextVtraceScan]_vars

(***************************************************************************)
(* Claims about the V-trace value targets, checked under SpecVtraceScan.   *)
(***************************************************************************)
\* deltas and the decay discounts*min(rhos, 1) of the chunk, as the scan
\* engine would be given them.
ChunkDeltas ==
    Stored([t \in 1..Dim0(chunk.values) |->
        Stored([b \in 1..Dim1(chunk.values) |->
            Delta(Clip(chunk.rhos[t][b], opts.clip_rho_threshold), t, b)])])

ChunkDecay ==
    Stored([t \in 1..Dim0(chunk.values) |->
        Stored([b \in 1..Dim1(chunk.values) |->
            chunk.discounts[t][b] * Min(chunk.rhos[t][b], 1)])])

\* C14: the private scan of vtrace_from_importance_weights computes what the
\* scan engine computes: vs - values = scan_discounted_sum(deltas,
\* discounts*min(rhos, 1), initial_value = 0, reverse = True), for every
\* clip_rho_threshold, None included.
C14_PrivateScanIsScanEngine ==
    (pc = "done" /\ fn = "vtrace_from_importance_weights") =>
        /\ Returned(ret)
        /\ Ret(TSub(ret.value.vs, chunk.values)) =
               scan_discounted_sum(ChunkDeltas, ChunkDecay,
                                   zeros_like(chunk.bootstrap_value),
                                   TRUE, None)

C14_Witness ==
    /\ VtraceReturned
    /\ opts.clip_rho_threshold = None
    /\ Dim0(chunk.values) >= 3
    /\ chunk.rhos[1][1] = 0
    /\ chunk.rhos[2][1] = 2
    /\ chunk.discounts[1][1] = 1
    /\ ret.value.vs[2][1] - chunk.values[2][1] = 2
    /\ ret.value.vs[1][1] - chunk.values[1][1] = 0
    /\ ret.value.vs[1][2] - chunk.values[1][2] = 4

(***************************************************************************)
(* Specification of the calls with arbitrary shapes: every tensor of the   *)
(* chunk has the nominal shape [T, B] (bootstrap_value [B]) except at most *)
(* one, which has any other shape within the bounds.  Entries are all 1.   *)
(***************************************************************************)
ShapeDims == 1..MaxT

TensorNames == {"rhos", "rewards", "discounts", "values"}

ShapeChunks ==
    { [rhos |-> Full(IF odd = "rhos" THEN T2 ELSE T,
                     IF odd = "rhos" THEN B2 ELSE B, 1),
       rewards |-> Full(IF odd = "rewards" THEN T2 ELSE T,
                        IF odd = "rewards" THEN B2 ELSE B, 1),
       discounts |-> Full(IF odd = "discounts" THEN T2 ELSE T,
                          IF odd = "discounts" THEN B2 ELSE B, 1),
       values |-> Full(IF odd = "values" THEN T2 ELSE T,
                       IF odd = "values" THEN B2 ELSE B, 1),
       bootstrap_value |->
           Full(1, IF odd = "bootstrap_value" THEN B2 ELSE B, 1)[1]] :
        <<T, B, odd, T2, B2>> \in
            ShapeDims \X ShapeDims \X (TensorNames \cup {"bootstrap_value"})
            \X ShapeDims \X ShapeDims }

InitShape ==
    /\ pc = "ready"
    /\ chunk \in ShapeChunks
    /\ fn = "none"
    /\ opts = <<>>
    /\ ret = NoCall

Shape_scan_discounted_sum ==
    /\ pc = "ready"
    /\ \E reverse \in BOOLEAN, sl \in SequenceLengths(chunk.rewards) :
        /\ fn' = "scan_discounted_sum"
        /\ opts' = [reverse |-> reverse, sequence_lengths |-> sl]
        /\ ret' = scan_discounted_sum(chunk.rewards, chunk.discounts,
                                      chunk.bootstrap_value, reverse, sl)
    /\ pc' = "done"
    /\ UNCHANGED chunk

Shape_reverse_seq ==
    /\ pc = "ready"
    /\ \E sl \in SequenceLengths(chunk.rewards) :
        /\ fn' = "reverse_seq"
        /\ opts' = [sequence_lengths |-> sl]
        /\ ret' = reverse_seq(chunk.rewards, sl)
    /\ pc' = "done"
    /\ UNCHANGED chunk

Shape_multistep_forward_view ==
    /\ pc = "ready"
    /\ \E l \in LambdaVals, sl \in SequenceLengths(chunk.rewards) :
        /\ fn' = "multistep_forward_view"
        /\ opts' = [lambda_ |-> l, sequence_lengths |-> sl]
        /\ ret' = multistep_forward_view(chunk.rewards, chunk.discounts,
                                         chunk.values, Scalar(l), sl)
    /\ pc' = "done"
    /\ UNCHANGED chunk

Shape_lambda_returns ==
    /\ pc = "ready"
    /\ \E l \in LambdaVals :
        /\ fn' = "lambda_returns"
        /\ opts' = [lambdas |-> l, sequence_lengths |-> None]
        /\ ret' = lambda_returns(chunk.values, chunk.rewards, chunk.discounts,
                                 Scalar(l))
    /\ pc' = "done"
    /\ UNCHANGED chunk

Shape_upgo_returns ==
    /\ pc = "ready"
    /\ fn' = "upgo_returns"
    /\ opts' = [sequence_lengths |-> None]
    /\ ret' = upgo_returns(chunk.values, chunk.rewards, chunk.discounts,
                           chunk.bootstrap_value)
    /\ pc' = "done"
    /\ UNCHANGED chunk

Shape_vtrace_from_importance_weights ==
    /\ pc = "ready"
    /\ fn' = "vtrace_from_importance_weights"
    /\ opts' = [clip_rho_threshold |-> Some(1),
                clip_pg_rho_threshold |-> Some(1), sequence_lengths |-> None]
    /\ ret' = vtrace_from_importance_weights(
                  chunk.rhos, chunk.discounts, chunk.rewards, chunk.values,
                  chunk.bootstrap_value, Some(1), Some(1))
    /\ pc' = "done"
    /\ UNCHANGED chunk

NextShape ==
    \/ Shape_scan_discounted_sum
    \/ Shape_reverse_seq
    \/ Shape_multistep_forward_view
    \/ Shape_lambda_returns
    \/ Shape_upgo_returns
    \/ Shape_vtrace_from_importance_weights

SpecShape == InitShape /\ [][NextShape]_vars

(***************************************************************************)
(* Claims about unsupported and inconsistent arguments, checked under      *)
(* SpecShape.                                                              *)
(***************************************************************************)
WithSequenceLengths ==
    /\ pc = "done"
    /\ fn \in {"scan_discounted_sum", "multistep_forward_view", "reverse_seq"}
    /\ opts.sequence_lengths # None

ForwardViewBroadcasts ==
    /\ Broadcastable(chunk.rewards, chunk.discounts)
    /\ Broadcastable(chunk.rewards, chunk.values)
    /\ Broadcastable(chunk.discounts, chunk.values)

ConsistentShapes ==
    LET tensors == CASE fn = "vtrace_from_importance_weights" ->
                          {chunk.rhos, chunk.rewards, chunk.discounts,
                           chunk.values}
                     [] fn = "scan_discounted_sum" ->
                          {chunk.rewards, chunk.discounts}
                     [] OTHER ->
                          {chunk.rewards, chunk.discounts, chunk.values}
        vectors == IF fn = "lambda_returns" THEN {}
                   ELSE {chunk.bootstrap_value}
    IN  /\ \A x, y \in tensors : Shape(x) = Shape(y)
        /\ \A x \in tensors : \A v \in vectors : Len(v) = Dim1(x)

\* C10: a call of vtrace_from_importance_weights, lambda_returns,
\* upgo_returns or scan_discounted_sum whose inputs have inconsistent
\* leading dimensions ends in an error and returns no result.
C10_InconsistentShapesRaise ==
    (/\ pc = "done"
     /\ fn \in {"vtrace_from_importance_weights", "lambda_returns",
                "upgo_returns", "scan_discounted_sum"}
     /\ opts.sequence_lengths = None
     /\ ~ConsistentShapes) => ~Returned(ret)

(***************************************************************************)
(* Policy utilities: log_prob, the importance weights and kl.              *)
(*                                                                         *)
(* Real numbers are held exactly.  A number in the linear domain           *)
(* (a probability, a ratio) is a fraction in lowest terms.  A number in    *)
(* the log domain (a logit, a log-probability) is Ln(q), the logarithm of  *)
(* the positive fraction q.  The product of a fraction and a logarithm is  *)
(* the term c*ln(q).  logits have shape [N, A] (N steps, A actions),       *)
(* actions [N, 1] with entries in 0..A-1, mask [N, 1].                     *)
(***************************************************************************)
MaxA == 3

RECURSIVE GCD(_, _)
GCD(a, b) == IF b = 0 THEN a ELSE GCD(b, a % b)

Frac(n, d) == [num |-> n \div GCD(n, d), den |-> d \div GCD(n, d)]

FracOne == Frac(1, 1)

FracAdd(p, q) == Frac(p.num * q.den + q.num * p.den, p.den * q.den)

FracMul(p, q) == Frac(p.num * q.num, p.den * q.den)

FracDiv(p, q) == Frac(p.num * q.den, p.den * q.num)

FracLe(p, q) == p.num * q.den <= q.num * p.den

Ln(q) == [ln |-> q]

exp(x) == x.ln

LnSub(x, y) == Ln(FracDiv(x.ln, y.ln))

LnNeg(x) == Ln(FracDiv(FracOne, x.ln))

RECURSIVE SumExp(_, _)
SumExp(row, a) ==
    IF a = 0 THEN Frac(0, 1) ELSE FracAdd(SumExp(row, a - 1), exp(row[a]))

Softmax(logits) ==
    Stored([n \in 1..Len(logits) |->
        Stored([a \in 1..Len(logits[n]) |->
            FracDiv(exp(logits[n][a]), SumExp(logits[n], Len(logits[n])))])])

LogSoftmax(logits) ==
    LET p == Softmax(logits)
    IN  Stored([n \in 1..Len(p) |->
            Stored([a \in 1..Len(p[n]) |-> Ln(p[n][a])])])

\* A returned tensor of the policy utilities carries its shape.
Tensor(shape, data) == [shape |-> shape, data |-> data]

squeeze(actions) == Stored([n \in 1..Len(actions) |-> actions[n][1]])

CrossEntropyLoss(logits, target) ==
    LET log_p == LogSoftmax(logits)
    IN  Stored([n \in 1..Len(target) |-> LnNeg(log_p[n][target[n] + 1])])

log_prob_is_loss(actions, logits) == CrossEntropyLoss(logits, squeeze(actions))

log_prob(actions, logits) ==
    LET loss_result == CrossEntropyLoss(logits, squeeze(actions))
    IN  Stored([n \in 1..Len(loss_result) |-> LnNeg(loss_result[n])])

compute_unclipped_logrho(behavior_logits, target_logits, actions) ==
    LET target_log_prob == log_prob(actions, target_logits)
        behavior_log_prob == log_prob(actions, behavior_logits)
    IN  Stored([n \in 1..Len(target_log_prob) |->
            LnSub(target_log_prob[n], behavior_log_prob[n])])

clamp_max_frac(q, m) == IF FracLe(q, m) THEN q ELSE m

compute_importance_weights(behavior_logits, target_logits, actions) ==
    LET logrho == compute_unclipped_logrho(behavior_logits, target_logits,
                                           actions)
        rho == Stored([n \in 1..Len(logrho) |-> exp(logrho[n])])
        clip_rho == Stored([n \in 1..Len(rho) |->
                                clamp_max_frac(rho[n], FracOne)])
    IN  Ret(Tensor(<<Len(clip_rho)>>, clip_rho))

TermZero == [coef |-> Frac(0, 1), ln |-> FracOne]

\* The product of the fraction c and the log-domain number x.
Term(c, x) ==
    IF c.num = 0 \/ x.ln = FracOne THEN TermZero ELSE [coef |-> c, ln |-> x.ln]

TermScale(term, m) == Term(FracMul(term.coef, m), Ln(term.ln))

kl(student_logits, teacher_logits, mask) ==
    LET s_logprobs == LogSoftmax(student_logits)
        t_logprobs == LogSoftmax(teacher_logits)
        teacher_probs == Softmax(teacher_logits)
    IN  Ret(Tensor(<<Len(teacher_probs), Len(teacher_probs[1])>>,
            Stored([n \in 1..Len(teacher_probs) |->
                Stored([a \in 1..Len(teacher_probs[n]) |->
                    TermScale(Term(teacher_probs[n][a],
                                   LnSub(t_logprobs[n][a], s_logprobs[n][a])),
                              Pick(mask[n], a))])])))

(***************************************************************************)
(* Inputs of the policy utilities: the logit of an action is the logarithm *)
(* of an integer weight; step n has the weight profile shifted cyclically  *)
(* by n-1 actions; the same action index is taken at every step.           *)
(***************************************************************************)
LogitWeights == {1, 2}

Logits(profile, N) ==
    Stored([n \in 1..N |->
        Stored([a \in 1..Len(profile) |->
            Ln(Frac(profile[((a + n - 2) % Len(profile)) + 1], 1))])])

PolicyChunks ==
    { [behavior_logits |-> Logits(b, N), target_logits |-> Logits(t, N),
       actions |-> Stored([n \in 1..N |-> <<taken>>])] :
        <<b, t, taken, N>> \in
            UNION { ([1..A -> LogitWeights] \X [1..A -> LogitWeights]
                     \X (0..(A - 1)) \X (1..MaxB)) : A \in 1..MaxA } }

Masks(N) ==
    { Stored([n \in 1..N |-> <<Frac(m[n], 1)>>]) : m \in [1..N -> {0, 1}] }

(***************************************************************************)
(* Specification of the policy utilities.  kl is called with the target    *)
(* policy as student and the behaviour policy as teacher.                  *)
(***************************************************************************)
InitPolicy ==
    /\ pc = "ready"
    /\ chunk \in PolicyChunks
    /\ fn = "none"
    /\ opts = <<>>
    /\ ret = NoCall

Call_compute_importance_weights ==
    /\ pc = "ready"
    /\ fn' = "compute_importance_weights"
    /\ opts' = <<>>
    /\ ret' = compute_importance_weights(chunk.behavior_logits,
                                         chunk.target_logits, chunk.actions)
    /\ pc' = "done"
    /\ UNCHANGED chunk

Call_kl ==
    /\ pc = "ready"
    /\ \E mask \in Masks(Len(chunk.behavior_logits)) :
        /\ fn' = "kl"
        /\ opts' = [mask |-> mask]
        /\ ret' = kl(chunk.target_logits, chunk.behavior_logits, mask)
    /\ pc' = "done"
    /\ UNCHANGED chunk

NextPolicy ==
    \/ Call_compute_importance_weights
    \/ Call_kl

SpecPolicy == InitPolicy /\ [][NextPolicy]_vars

(***************************************************************************)
(* Claims about the policy utilities, checked under SpecPolicy.            *)
(***************************************************************************)
Weight(logits, n, a) == logits[n][a].ln.num

RECURSIVE TotalWeight(_, _, _)
TotalWeight(logits, n, a) ==
    IF a = 0 THEN 0 ELSE TotalWeight(logits, n, a - 1) + Weight(logits, n, a)

NumActions == Len(chunk.behavior_logits[1])

\* Numerator and denominator of the unclipped importance ratio
\* target_p(a)/behavior_p(a) of the action taken at step n.
RhoNum(n) ==
    Weight(chunk.target_logits, n, chunk.actions[n][1] + 1)
    * TotalWeight(chunk.behavior_logits, n, NumActions)

RhoDen(n) ==
    Weight(chunk.behavior_logits, n, chunk.actions[n][1] + 1)
    * TotalWeight(chunk.target_logits, n, NumActions)

\* C11: every element of the tensor compute_importance_weights returns is
\* <= 1 and equals min(rho, 1), rho being the unclipped importance ratio
\* target_p(a)/behavior_p(a) of the action taken.
C11_WeightsCappedAtOne ==
    (pc = "done" /\ fn = "compute_importance_weights") =>
        /\ Returned(ret)
        /\ ret.value.shape = <<Len(chunk.actions)>>
        /\ \A n \in 1..Len(chunk.actions) :
             LET w == ret.value.data[n]
             IN  /\ w.num <= w.den
                 /\ IF RhoNum(n) >= RhoDen(n)
                    THEN w.num = w.den
                    ELSE w.num * RhoDen(n) = w.den * RhoNum(n)

C11_Witness ==
    /\ pc = "done"
    /\ fn = "compute_importance_weights"
    /\ Returned(ret)
    /\ NumActions >= 3
    /\ Len(chunk.actions) >= 2
    /\ RhoNum(1) > RhoDen(1)
    /\ ret.value.data[1] = FracOne
    /\ 5 * RhoNum(2) = 2 * RhoDen(2)
    /\ ret.value.data[2] = Frac(2, 5)

KlReturned == pc = "done" /\ fn = "kl"

\* The term teacher_p(a)*(log teacher_p(a) - log student_p(a))*mask of step n
\* and action a, computed from the weights; the behaviour policy is the
\* teacher, the target policy the student.
KlTerm(n, a) ==
    LET tw == Weight(chunk.behavior_logits, n, a)
        tsum == TotalWeight(chunk.behavior_logits, n, NumActions)
        sw == Weight(chunk.target_logits, n, a)
        ssum == TotalWeight(chunk.target_logits, n, NumActions)
    IN  IF opts.mask[n][1].num = 0 \/ tw * ssum = sw * tsum
        THEN TermZero
        ELSE [coef |-> Frac(tw, tsum), ln |-> Frac(tw * ssum, sw * tsum)]

\* The sum over the actions of the terms of step n, as one value.
KlSum(n) == [sum |-> Stored([a \in 1..NumActions |-> KlTerm(n, a)])]

\* C12: kl returns one value per step, the masked sum over the action
\* dimension of teacher_p(a)*(log teacher_p(a) - log student_p(a)); the
\* result has the shape of the steps, with no action axis.
C12_KlSummedOverActions ==
    KlReturned =>
        /\ Returned(ret)
        /\ ret.value.shape = <<Len(chunk.behavior_logits)>>
        /\ \A n \in 1..Len(chunk.behavior_logits) :
             ret.value.data[n] = KlSum(n)

====
